---- MODULE Spec2Model ----
(***************************************************************************)
(* A model of grbpop/functional_forms.py: twelve pure rate-density         *)
(* functions over numpy/Python numbers.                                    *)
(*                                                                         *)
(* Numbers.  A finite value is an exact real: a quotient n/d of sums of    *)
(* integer multiples of monomials, times a power of ten.  A monomial is a  *)
(* product of powers of the transcendental atoms the code produces:        *)
(* e (np.exp), x**y for a non-integer y, and scipy's gammainc(s, x).       *)
(* IEEE rounding is not modelled; IEEE inf/nan and Python's                *)
(* ZeroDivisionError are.  Every value carries the flag np: TRUE for a     *)
(* numpy value (array entry, np.exp or np.where result), FALSE for a plain *)
(* Python scalar, because the two divide by zero differently.              *)
(***************************************************************************)
EXTENDS Integers, Sequences, FiniteSets, TLC

----------------------------------------------------------------------------
(* Integers and rationals (exponents, atom arguments).                     *)

Abs(i) == IF i < 0 THEN -i ELSE i

Min(i, j) == IF i <= j THEN i ELSE j

RECURSIVE GCD(_, _)
GCD(a, b) == IF b = 0 THEN Abs(a) ELSE GCD(Abs(b), Abs(a) % Abs(b))

RECURSIVE IPow(_, _)
IPow(b, k) == IF k <= 0 THEN 1 ELSE b * IPow(b, k - 1)

RatNorm(n, d) ==
  LET g == GCD(n, d)
      s == IF d < 0 THEN -1 ELSE 1
  IN  << (s * n) \div g, (s * d) \div g >>

R0 == << 0, 1 >>

RatAdd(q, r) == RatNorm(q[1] * r[2] + r[1] * q[2], q[2] * r[2])

----------------------------------------------------------------------------
(* Monomials: finite maps from atoms to non-zero rational exponents.       *)

AtomE == [f |-> "e", x |-> R0, y |-> R0]

AtomPow(x, y) == [f |-> "pow", x |-> x, y |-> y]

AtomGammainc(s, x) == [f |-> "gammainc", x |-> s, y |-> x]

MOne == [b \in {} |-> R0]

MAtom(b, q) == [c \in {b} |-> q]

MMul(m1, m2) ==
  LET s(b) == RatAdd(IF b \in DOMAIN m1 THEN m1[b] ELSE R0,
                     IF b \in DOMAIN m2 THEN m2[b] ELSE R0)
      K == {b \in (DOMAIN m1) \cup (DOMAIN m2) : s(b)[1] # 0}
  IN  [b \in K |-> s(b)]

MInv(m) == [b \in DOMAIN m |-> << -m[b][1], m[b][2] >>]

----------------------------------------------------------------------------
(* Polynomials: finite maps from monomials to non-zero integers.           *)

PZero == [m \in {} |-> 0]

PConst(c) == IF c = 0 THEN PZero ELSE [m \in {MOne} |-> c]

PMono(m, c) == IF c = 0 THEN PZero ELSE [k \in {m} |-> c]

PCoef(P, m) == IF m \in DOMAIN P THEN P[m] ELSE 0

PAdd(P, Q) ==
  LET K == {m \in (DOMAIN P) \cup (DOMAIN Q) : PCoef(P, m) + PCoef(Q, m) # 0}
  IN  [m \in K |-> PCoef(P, m) + PCoef(Q, m)]

PScale(P, k) == IF k = 0 THEN PZero ELSE [m \in DOMAIN P |-> k * P[m]]

PQuot(P, k) == [m \in DOMAIN P |-> P[m] \div k]

RECURSIVE SumPairs(_, _, _)
SumPairs(S, P, Q) ==
  IF S = {} THEN 0
  ELSE LET pr == CHOOSE pr \in S : TRUE
       IN  P[pr[1]] * Q[pr[2]] + SumPairs(S \ {pr}, P, Q)

IsConst(P) == DOMAIN P = {MOne}

PMul(P, Q) ==
  IF IsConst(P) /\ IsConst(Q) THEN [m \in {MOne} |-> P[MOne] * Q[MOne]]
  ELSE IF IsConst(Q) THEN [m \in DOMAIN P |-> P[m] * Q[MOne]]
  ELSE IF IsConst(P) THEN [m \in DOMAIN Q |-> P[MOne] * Q[m]]
  ELSE
    LET pairs == (DOMAIN P) \X (DOMAIN Q)
        c(m) == SumPairs({pr \in pairs : MMul(pr[1], pr[2]) = m}, P, Q)
        K == {m \in {MMul(pr[1], pr[2]) : pr \in pairs} : c(m) # 0}
    IN  [m \in K |-> c(m)]

RECURSIVE Content(_)
Content(P) ==
  IF DOMAIN P = {} THEN 0
  ELSE IF IsConst(P) THEN Abs(P[MOne])
  ELSE LET m == CHOOSE m \in DOMAIN P : TRUE
       IN  GCD(P[m], Content([k \in (DOMAIN P) \ {m} |-> P[k]]))

RECURSIVE Tens(_)
Tens(c) == IF c # 0 /\ c % 10 = 0 THEN 1 + Tens(c \div 10) ELSE 0

AllPos(P) == \A m \in DOMAIN P : P[m] > 0

AllNeg(P) == \A m \in DOMAIN P : P[m] < 0

----------------------------------------------------------------------------
(* Finite numbers n/d * 10^p.                                              *)

\* The normal form: a one-term denominator is a positive integer (its
\* monomial moves to n), n and d have no common integer factor, and neither
\* is a multiple of 10.  Equal numbers may still differ in form: NumEq
\* compares values.
NormTens(n, d, p, tn, td) ==
  [n |-> PQuot(n, IPow(10, tn)), d |-> PQuot(d, IPow(10, td)), p |-> p + tn - td]

NormReduced(n, d, p) == NormTens(n, d, p, Tens(Content(n)), Tens(Content(d)))

NormGcd(n, d, p, g) == NormReduced(PQuot(n, g), PQuot(d, g), p)

NormSign(n, d, p, s) ==
  NormGcd(PScale(n, s), PScale(d, s), p, GCD(Content(n), Content(d)))

NormMono(n, d, p) == NormSign(n, d, p, IF AllNeg(d) THEN -1 ELSE 1)

NormSingle(n, d, p, dm) ==
  NormMono(PMul(n, PMono(MInv(dm), 1)), PConst(d[dm]), p)

Norm(n, d, p) ==
  IF n = PZero THEN [n |-> PZero, d |-> [m \in {MOne} |-> 1], p |-> 0]
  ELSE IF Cardinality(DOMAIN d) = 1 /\ ~IsConst(d)
       THEN NormSingle(n, d, p, CHOOSE m \in DOMAIN d : TRUE)
       ELSE NormMono(n, d, p)

\* The decimal literal m * 10^p, for m # 0 and not a multiple of 10.
Lit(m, p) == [n |-> [k \in {MOne} |-> m], d |-> [k \in {MOne} |-> 1], p |-> p]

Zero == [n |-> PZero, d |-> [m \in {MOne} |-> 1], p |-> 0]

One == [n |-> [m \in {MOne} |-> 1], d |-> [m \in {MOne} |-> 1], p |-> 0]

IsZero(x) == x.n = PZero

NumEqAt(x, y, pm) ==
  PScale(PMul(x.n, y.d), IPow(10, x.p - pm))
    = PScale(PMul(y.n, x.d), IPow(10, y.p - pm))

NumEq(x, y) ==
  IF IsZero(x) \/ IsZero(y) THEN IsZero(x) /\ IsZero(y)
  ELSE NumEqAt(x, y, Min(x.p, y.p))

NumAddScaled(xn, xd, yn, yd, pm) ==
  IF xd = yd THEN Norm(PAdd(xn, yn), xd, pm)
  ELSE Norm(PAdd(PMul(xn, yd), PMul(yn, xd)), PMul(xd, yd), pm)

NumAddAt(x, y, pm) ==
  NumAddScaled(PScale(x.n, IPow(10, x.p - pm)), x.d,
               PScale(y.n, IPow(10, y.p - pm)), y.d, pm)

NumAdd(x, y) == NumAddAt(x, y, Min(x.p, y.p))

NumNeg(x) == [x EXCEPT !.n = PScale(x.n, -1)]

NumMul(x, y) == Norm(PMul(x.n, y.n), PMul(x.d, y.d), x.p + y.p)

NumDiv(x, y) == Norm(PMul(x.n, y.d), PMul(x.d, y.n), x.p - y.p)

RECURSIVE NumPowNat(_, _)
NumPowNat(x, k) == IF k <= 0 THEN One ELSE NumMul(x, NumPowNat(x, k - 1))

NumPowInt(x, k) ==
  IF k >= 0 THEN NumPowNat(x, k) ELSE NumDiv(One, NumPowNat(x, -k))

IsRational(x) == DOMAIN x.n \subseteq {MOne} /\ DOMAIN x.d \subseteq {MOne}

ToRat(x) ==
  IF x.p >= 0 THEN RatNorm(PCoef(x.n, MOne) * IPow(10, x.p), PCoef(x.d, MOne))
  ELSE RatNorm(PCoef(x.n, MOne), PCoef(x.d, MOne) * IPow(10, -x.p))

IsInteger(x) == IsRational(x) /\ ToRat(x)[2] = 1

RatLeq(q, r) == q[1] * r[2] <= r[1] * q[2]

NumLeq(x, y) ==
  CASE IsRational(x) /\ IsRational(y) -> RatLeq(ToRat(x), ToRat(y))

\* The sign of a finite number; every atom is a positive real.
NumSign(x) ==
  CASE IsZero(x) -> 0
    [] (AllPos(x.n) /\ AllPos(x.d)) \/ (AllNeg(x.n) /\ AllNeg(x.d)) -> 1
    [] (AllPos(x.n) /\ AllNeg(x.d)) \/ (AllNeg(x.n) /\ AllPos(x.d)) -> -1

----------------------------------------------------------------------------
(* Python / numpy values.  t is "fin" (num holds the value), "pinf",       *)
(* "ninf", "nan", "None" (an unset optional argument) or                   *)
(* "ZeroDivisionError" (the evaluation raised).                            *)

V(num, np) == [t |-> "fin", num |-> num, np |-> np]

Py(num) == V(num, FALSE)

PInf == [t |-> "pinf", num |-> Zero, np |-> TRUE]

NInf == [t |-> "ninf", num |-> Zero, np |-> TRUE]

NaN == [t |-> "nan", num |-> Zero, np |-> TRUE]

NoneV == [t |-> "None", num |-> Zero, np |-> FALSE]

ZDE == [t |-> "ZeroDivisionError", num |-> Zero, np |-> FALSE]

IsRaise(v) == v.t = "ZeroDivisionError"

IsFin(v) == v.t = "fin"

IsInf(v) == v.t \in {"pinf", "ninf"}

InfOf(s) == IF s > 0 THEN PInf ELSE NInf

VSign(v) == CASE v.t = "fin" -> NumSign(v.num) [] v.t = "pinf" -> 1 [] v.t = "ninf" -> -1

VIsZero(v) == v.t = "fin" /\ IsZero(v.num)

\* Equal outcomes: both nan, the same infinity, or equal finite values.
SameVal(x, y) == x.t = y.t /\ (x.t = "fin" => NumEq(x.num, y.num))

VNeg(x) ==
  CASE IsRaise(x) -> ZDE
    [] x.t = "fin" -> V(NumNeg(x.num), x.np)
    [] x.t = "pinf" -> NInf
    [] x.t = "ninf" -> PInf
    [] x.t = "nan" -> NaN

VAdd(x, y) ==
  CASE IsRaise(x) \/ IsRaise(y) -> ZDE
    [] x.t = "nan" \/ y.t = "nan" -> NaN
    [] IsFin(x) /\ IsFin(y) -> V(NumAdd(x.num, y.num), x.np \/ y.np)
    [] IsInf(x) /\ IsInf(y) -> IF x.t = y.t THEN x ELSE NaN
    [] IsInf(x) -> x
    [] IsInf(y) -> y

VSub(x, y) == VAdd(x, VNeg(y))

VMul(x, y) ==
  CASE IsRaise(x) \/ IsRaise(y) -> ZDE
    [] x.t = "nan" \/ y.t = "nan" -> NaN
    [] IsFin(x) /\ IsFin(y) -> V(NumMul(x.num, y.num), x.np \/ y.np)
    [] VIsZero(x) \/ VIsZero(y) -> NaN
    [] OTHER -> InfOf(VSign(x) * VSign(y))

\* x / y.  Two plain Python scalars raise on a zero divisor; with a numpy
\* operand the quotient is +-inf, or nan for 0/0.
VDiv(x, y) ==
  CASE IsRaise(x) \/ IsRaise(y) -> ZDE
    [] x.t = "nan" \/ y.t = "nan" -> NaN
    [] IsFin(x) /\ IsFin(y) ->
         IF IsZero(y.num)
         THEN IF ~x.np /\ ~y.np THEN ZDE
              ELSE IF IsZero(x.num) THEN NaN ELSE InfOf(NumSign(x.num))
         ELSE V(NumDiv(x.num, y.num), x.np \/ y.np)
    [] IsInf(x) /\ IsInf(y) -> NaN
    [] IsInf(x) -> IF VIsZero(y) THEN x ELSE InfOf(VSign(x) * VSign(y))
    [] IsInf(y) -> V(Zero, TRUE)

\* x ** y for a finite y.  An integer y is repeated multiplication; 0 to a
\* negative power is a zero division; a positive rational to a non-integer
\* power is an atom.
VPowAtom(q, r, np) ==
  V(Norm(PMono(MAtom(AtomPow(q, r), << 1, 1 >>), 1), PConst(1), 0), np)

VPowWith(x, y, yint, k, ys, np) ==
  CASE IsRaise(x) \/ IsRaise(y) -> ZDE
    [] x.t = "nan" -> IF ys = 0 THEN V(One, TRUE) ELSE NaN
    [] x.t = "pinf" ->
         IF ys = 0 THEN V(One, TRUE) ELSE IF ys > 0 THEN PInf ELSE V(Zero, TRUE)
    [] x.t = "ninf" ->
         IF ys = 0 THEN V(One, TRUE)
         ELSE IF ys < 0 THEN V(Zero, TRUE)
         ELSE IF yint /\ k % 2 = 1 THEN NInf ELSE PInf
    [] IsFin(x) /\ IsZero(x.num) ->
         IF ys = 0 THEN V(One, np)
         ELSE IF ys > 0 THEN V(Zero, np)
         ELSE IF ~np THEN ZDE ELSE PInf
    [] IsFin(x) /\ ~IsZero(x.num) /\ yint -> V(NumPowInt(x.num, k), np)
    [] IsFin(x) /\ ~yint /\ NumEq(x.num, One) -> V(One, np)
    [] IsFin(x) /\ ~yint /\ ~NumEq(x.num, One) /\ IsRational(x.num)
         /\ NumSign(x.num) > 0 ->
         VPowAtom(ToRat(x.num), ToRat(y.num), np)

VPow(x, y) ==
  VPowWith(x, y, IsInteger(y.num), ToRat(y.num)[1], NumSign(y.num), x.np \/ y.np)

\* np.exp(x): a numpy value.
VExp(x) ==
  CASE IsRaise(x) -> ZDE
    [] x.t = "nan" -> NaN
    [] x.t = "pinf" -> PInf
    [] x.t = "ninf" -> V(Zero, TRUE)
    [] IsFin(x) /\ IsZero(x.num) -> V(One, TRUE)
    [] IsFin(x) /\ ~IsZero(x.num) /\ IsRational(x.num) ->
         V(Norm(PMono(MAtom(AtomE, ToRat(x.num)), 1), PConst(1), 0), TRUE)

\* x <= y and x >= y on finite rational values.
VLeq(x, y) == NumLeq(x.num, y.num)

VGeq(x, y) == NumLeq(y.num, x.num)

\* np.where(c, x, y): both branches are evaluated before the selection.
Where(c, x, y) ==
  IF IsRaise(x) \/ IsRaise(y) THEN ZDE
  ELSE [(IF c THEN x ELSE y) EXCEPT !.np = TRUE]

\* scipy.special.gammainc(s, x), the regularized lower incomplete gamma
\* function P(s, x), for a finite rational s > 0: P(s, 0) = 0, P(s, inf) = 1.
Gammainc(s, x) ==
  CASE IsRaise(s) \/ IsRaise(x) -> ZDE
    [] x.t = "nan" -> NaN
    [] x.t = "pinf" -> V(One, TRUE)
    [] x.t = "ninf" -> NaN
    [] IsFin(x) /\ IsZero(x.num) -> V(Zero, TRUE)
    [] IsFin(x) /\ ~IsZero(x.num) /\ NumSign(x.num) < 0 -> NaN
    [] IsFin(x) /\ ~IsZero(x.num) /\ NumSign(x.num) > 0 /\ IsRational(x.num) ->
         V(Norm(PMono(MAtom(AtomGammainc(ToRat(s.num), ToRat(x.num)), << 1, 1 >>), 1),
                PConst(1), 0), TRUE)

----------------------------------------------------------------------------
(* The functions of functional_forms.py, on one entry of the independent   *)
(* variable.  Every parameter is a value; literals are Python numbers.     *)
(* Each assignment of the source is one operator.                          *)

F1 == [t |-> "fin", num |-> One, np |-> FALSE]

F10 == [t |-> "fin", num |-> Lit(1, 1), np |-> FALSE]

\* Schechter_Sch with the sign of the exponential's argument lost.
Schechter_Sch_exp_plus(x, slope) == VMul(VPow(x, VSub(F1, slope)), VExp(x))

Schechter_Sch(x, slope) == VMul(VPow(x, VSub(F1, slope)), VExp(VNeg(x)))

Schechter_log(logL, logLbreak, slope) ==
  Schechter_Sch(VPow(F10, VSub(logL, logLbreak)), slope)

BPL_lum_low(x, slopeL) == VPow(x, VSub(F1, slopeL))

BPL_lum_high(x, slopeH) == VPow(x, VSub(F1, slopeH))

BPL_lum_func(x, slopeL, slopeH) ==
  Where(VLeq(x, F1), BPL_lum_low(x, slopeL), BPL_lum_high(x, slopeH))

BPL_lum(logL, logLbreak, slopeL, slopeH) ==
  BPL_lum_func(VPow(F10, VSub(logL, logLbreak)), slopeL, slopeH)

SH03_shape(z, a, b, zm) ==
  VDiv(VMul(a, VExp(VMul(b, VSub(z, zm)))),
       VAdd(VSub(a, b), VMul(b, VExp(VMul(a, VSub(z, zm))))))

SH03(z, a, b, zm, nu, IMF_norm) == VMul(VMul(IMF_norm, nu), SH03_shape(z, a, b, zm))

HB06_seg1(z, a) == VPow(VAdd(F1, z), a)

HB06_seg2(z, z1, a, b) ==
  VMul(VPow(VAdd(F1, z), b), VPow(VAdd(F1, z1), VSub(a, b)))

\* HB06_seg3 without the factor carried over from the first breakpoint.
HB06_seg3_no_z1(z, z1, z2, a, b, c) ==
  VMul(VPow(VAdd(F1, z), c), VPow(VAdd(F1, z2), VSub(b, c)))

HB06_seg3(z, z1, z2, a, b, c) ==
  VMul(VMul(VPow(VAdd(F1, z), c), VPow(VAdd(F1, z2), VSub(b, c))),
       VPow(VAdd(F1, z1), VSub(a, b)))

HB06_shape(z, z1, z2, a, b, c) ==
  Where(VGeq(z, z2), HB06_seg3(z, z1, z2, a, b, c),
        Where(VLeq(z, z1), HB06_seg1(z, a), HB06_seg2(z, z1, a, b)))

HB06(z, z1, z2, a, b, c, norm, IMF_norm) == VMul(norm, HB06_shape(z, z1, z2, a, b, c))

BExp_low(z, a) == VExp(VMul(a, z))

BExp_high(z, a, b, zm) == VMul(VExp(VMul(b, z)), VExp(VMul(VSub(a, b), zm)))

BExp_shape(z, a, b, zm) == Where(VLeq(z, zm), BExp_low(z, a), BExp_high(z, a, b, zm))

\* BExp_norm testing the truth value of nGRB0.
BExp_norm_truthy(SFR_norm, IMF_norm, nGRB0) ==
  IF nGRB0 = NoneV \/ VIsZero(nGRB0) THEN VMul(IMF_norm, SFR_norm) ELSE nGRB0

BExp_norm(SFR_norm, IMF_norm, nGRB0) ==
  IF nGRB0 = NoneV THEN VMul(IMF_norm, SFR_norm) ELSE nGRB0

BExp(z, a, b, zm, SFR_norm, IMF_norm, nGRB0) ==
  VMul(BExp_norm(SFR_norm, IMF_norm, nGRB0), BExp_shape(z, a, b, zm))

Li08(z, a, b, c, d, IMF_norm) ==
  VDiv(VMul(IMF_norm, VAdd(a, VMul(b, z))), VAdd(F1, VPow(VDiv(z, c), d)))

Li08_a == [t |-> "fin", num |-> Lit(157, -4), np |-> FALSE]

Li08_b == [t |-> "fin", num |-> Lit(118, -3), np |-> FALSE]

Li08_c == [t |-> "fin", num |-> Lit(323, -2), np |-> FALSE]

Li08_d == [t |-> "fin", num |-> Lit(466, -2), np |-> FALSE]

IMF_Salpeter == [t |-> "fin", num |-> Lit(7422, -6), np |-> FALSE]

Li08_default(z) == Li08(z, Li08_a, Li08_b, Li08_c, Li08_d, IMF_Salpeter)

S12_n_dens(shape, z, n_dens) ==
  IF n_dens # NoneV THEN VMul(shape, VPow(VAdd(F1, z), n_dens)) ELSE shape

S12_gamma_s == [t |-> "fin", num |-> Lit(84, -2), np |-> FALSE]

F2 == [t |-> "fin", num |-> Lit(2, 0), np |-> FALSE]

F03 == [t |-> "fin", num |-> Lit(3, -1), np |-> FALSE]

\* S12_Zth testing the truth value of Zth.
S12_Zth_truthy(shape, z, Zth) ==
  IF Zth # NoneV /\ ~VIsZero(Zth)
  THEN VMul(shape, Gammainc(S12_gamma_s, VMul(VPow(Zth, F2), VPow(F10, VMul(F03, z)))))
  ELSE shape

S12_Zth(shape, z, Zth) ==
  IF Zth # NoneV
  THEN VMul(shape, Gammainc(S12_gamma_s, VMul(VPow(Zth, F2), VPow(F10, VMul(F03, z)))))
  ELSE shape

S12(z, Zth, n_dens) == S12_Zth(S12_n_dens(Li08_default(z), z, n_dens), z, Zth)

BPL_z_low(z, a) == VPow(VAdd(F1, z), a)

\* BPL_z_high with the exponent of the continuity factor reversed.
BPL_z_high_b_minus_a(z, a, b, zm) ==
  VMul(VPow(VAdd(F1, z), b), VPow(VAdd(F1, zm), VSub(b, a)))

BPL_z_high(z, a, b, zm) ==
  VMul(VPow(VAdd(F1, z), b), VPow(VAdd(F1, zm), VSub(a, b)))

BPL_z_shape(z, a, b, zm) == Where(VLeq(z, zm), BPL_z_low(z, a), BPL_z_high(z, a, b, zm))

\* BPL_z_norm dividing as numpy divides.
BPL_z_norm_numpy(nGRB0, eta0, av_jet_ang) ==
  VDiv([nGRB0 EXCEPT !.np = TRUE], VMul(eta0, av_jet_ang))

BPL_z_norm(nGRB0, eta0, av_jet_ang) == VDiv(nGRB0, VMul(eta0, av_jet_ang))

BPL_z(z, a, b, zm, nGRB0, eta0, av_jet_ang) ==
  VMul(BPL_z_norm(nGRB0, eta0, av_jet_ang), BPL_z_shape(z, a, b, zm))

MD14_shape(z, b, c, d) ==
  VDiv(VPow(VAdd(F1, z), b), VAdd(F1, VPow(VDiv(VAdd(F1, z), c), d)))

MD14(z, a, b, c, d, IMF_norm) == VMul(VMul(IMF_norm, a), MD14_shape(z, b, c, d))

Rob15_shape(z, b, c, d) ==
  VDiv(VPow(VAdd(F1, z), b), VAdd(F1, VPow(VDiv(VAdd(F1, z), c), d)))

\* Rob15 at the upper end of a's error bar.
Rob15_a_plus_err(z, a, b, c, d, a_err, b_err, c_err, d_err, IMF_norm) ==
  VMul(VMul(IMF_norm, VAdd(a, a_err)), Rob15_shape(z, b, c, d))

Rob15(z, a, b, c, d, a_err, b_err, c_err, d_err, IMF_norm) ==
  VMul(VMul(IMF_norm, a), Rob15_shape(z, b, c, d))

D06_shape(z, a, b, c, d) ==
  VDiv(VMul(a, VExp(VMul(b, z))), VAdd(d, VExp(VMul(c, z))))

D06(z, a, b, c, d, IMF_norm) == VMul(IMF_norm, D06_shape(z, a, b, c, d))

\* qD06's preset lists (Python lists indexed from 0: l[i] is the entry i + 1).
Flt(m, p) == [t |-> "fin", num |-> Lit(m, p), np |-> FALSE]

qD06_a_s == << Flt(32, -2), Flt(196, -3), Flt(175, -3) >>

qD06_b_s == << Flt(33, -1), Flt(4, 0), Flt(367, -2) >>

qD06_c_s == << Flt(352, -2), Flt(4, 0), Flt(348, -2) >>

qD06_d_s == << Flt(236, -1), Flt(146, -1), Flt(126, -1) >>

qD06_k_s_LN == << Flt(25, -7), Flt(2, -6), Flt(63, -8) >>

qD06_k_s_A == << Flt(4, -6), Flt(32, -7), Flt(12, -7) >>

\* qD06_mod_ok comparing without regard to case.
qD06_mod_ok_nocase(mod) == mod \in {"LN", "A", "a"}

qD06_mod_ok(mod) == mod \in {"LN", "A"}

\* qD06_k_s with the two lists exchanged.
qD06_k_s_swapped(mod) == IF mod = "LN" THEN qD06_k_s_A ELSE qD06_k_s_LN

qD06_k_s(mod) == IF mod = "LN" THEN qD06_k_s_LN ELSE qD06_k_s_A

qD06_SFR_ok(SFR) == SFR \in {1, 2, 3}

qD06_shape(z, SFR) ==
  VDiv(VMul(qD06_a_s[SFR - 1 + 1], VExp(VMul(qD06_b_s[SFR - 1 + 1], z))),
       VAdd(qD06_d_s[SFR - 1 + 1], VExp(VMul(qD06_c_s[SFR - 1 + 1], z))))

qD06_norm(ks, SFR, IMF_norm) == VMul(ks[SFR - 1 + 1], IMF_norm)

----------------------------------------------------------------------------
(* Calls.  A caller picks a function and its arguments, the function runs, *)
(* and the caller takes the result.  The independent variable is a plain   *)
(* Python scalar or a numpy array; a call on an array is the call on each  *)
(* entry, and it raises when a subexpression of plain scalars raises.      *)

MaxZ == 2

MaxExp == 1

IntNum(i) == IF i = 0 THEN Zero ELSE Lit(i, 0)

ZNums == {IntNum(i) : i \in 0..MaxZ}

ZIn == {[np |-> FALSE, v |-> << IntNum(i) >>] : i \in 0..MaxZ}
         \cup {[np |-> TRUE, v |-> << IntNum(i), IntNum((i + 1) % (MaxZ + 1)) >>] : i \in 0..MaxZ}

\* log-luminosities around 10^52 erg/s
LogLIn == {[np |-> FALSE, v |-> << IntNum(51 + i) >>] : i \in 0..MaxZ}
            \cup {[np |-> TRUE, v |-> << IntNum(51 + i), IntNum(51 + ((i + 1) % (MaxZ + 1))) >>] : i \in 0..MaxZ}

LogLbreakVals == {Flt(51 + i, 0) : i \in 0..MaxZ}

\* redshifts at which 0.3*z is an integer
S12ZIn == {[np |-> FALSE, v |-> << Zero >>], [np |-> FALSE, v |-> << Lit(1, 1) >>],
           [np |-> TRUE, v |-> << Zero, Lit(1, 1) >>]}

ZVals == {Py(x) : x \in ZNums}

\* slopes and exponents: -1 up to MaxExp
ExpVals == {Py(IntNum(i)) : i \in (-1)..MaxExp}

S12NVals == {Py(IntNum(i)) : i \in {-1, 0, 1}}

Elem(z, i) == [t |-> "fin", num |-> z.v[i], np |-> z.np]

NoRet == [exc |-> "pending", msg |-> "", v |-> << >>]

Raised(exc, msg) == [exc |-> exc, msg |-> msg, v |-> << >>]

RetOf(seq) ==
  IF \E i \in DOMAIN seq : IsRaise(seq[i])
  THEN [exc |-> "ZeroDivisionError", msg |-> "", v |-> << >>]
  ELSE [exc |-> "none", msg |-> "", v |-> seq]

VARIABLES pc, fn, args, ret, k_s, shape, norm

vars == << pc, fn, args, ret, k_s, shape, norm >>

Unset == << >>

NoArgs == [z |-> [np |-> FALSE, v |-> << >>]]

Init ==
  /\ pc = "idle"
  /\ fn = "none"
  /\ args = NoArgs
  /\ ret = NoRet
  /\ k_s = Unset
  /\ shape = Unset
  /\ norm = Unset

Finish(f, a, r) ==
  /\ pc' = "done"
  /\ fn' = f
  /\ args' = a
  /\ ret' = r
  /\ UNCHANGED << k_s, shape, norm >>

Call_Schechter_log ==
  /\ pc = "idle"
  /\ \E logL \in LogLIn, logLbreak \in LogLbreakVals, slope \in ExpVals :
       Finish("Schechter_log",
              [z |-> logL, logLbreak |-> logLbreak, slope |-> slope],
              RetOf([i \in DOMAIN logL.v |->
                       Schechter_log(Elem(logL, i), logLbreak, slope)]))

Call_BPL_lum ==
  /\ pc = "idle"
  /\ \E logL \in LogLIn, logLbreak \in LogLbreakVals, slopeL \in ExpVals, slopeH \in ExpVals :
       Finish("BPL_lum",
              [z |-> logL, logLbreak |-> logLbreak, slopeL |-> slopeL, slopeH |-> slopeH],
              RetOf([i \in DOMAIN logL.v |->
                       BPL_lum(Elem(logL, i), logLbreak, slopeL, slopeH)]))

SH03Params ==
  [a : ExpVals, b : ExpVals, nu : {Flt(178, -3)}, IMF_norm : {IMF_Salpeter}]
    \cup {[a |-> Flt(237, -2), b |-> Flt(18, -1), nu |-> Flt(178, -3), IMF_norm |-> IMF_Salpeter]}

Call_SH03 ==
  /\ pc = "idle"
  /\ \E z \in ZIn, q \in SH03Params, zm \in ZVals :
       Finish("SH03",
              [z |-> z, a |-> q.a, b |-> q.b, zm |-> zm, nu |-> q.nu, IMF_norm |-> q.IMF_norm],
              RetOf([i \in DOMAIN z.v |-> SH03(Elem(z, i), q.a, q.b, zm, q.nu, q.IMF_norm)]))

HB06Params == [a : ExpVals, b : ExpVals, c : ExpVals, norm : {Flt(197, -4)},
               IMF_norm : {IMF_Salpeter}]

Call_HB06 ==
  /\ pc = "idle"
  /\ \E z \in ZIn, z1 \in ZVals, z2 \in ZVals, q \in HB06Params :
       Finish("HB06",
              [z |-> z, z1 |-> z1, z2 |-> z2, a |-> q.a, b |-> q.b, c |-> q.c,
               norm |-> q.norm, IMF_norm |-> q.IMF_norm],
              RetOf([i \in DOMAIN z.v |->
                       HB06(Elem(z, i), z1, z2, q.a, q.b, q.c, q.norm, q.IMF_norm)]))

NGRB0Vals == {Py(Zero), Flt(13, -10)}

BExpNorms ==
  [SFR_norm : {Flt(2744, -5), F1}, IMF_norm : {IMF_Salpeter}, nGRB0 : {NoneV} \cup NGRB0Vals]
    \cup [SFR_norm : {Flt(2744, -5)}, IMF_norm : {F1}, nGRB0 : {NoneV, Py(Zero)}]

Call_BExp ==
  /\ pc = "idle"
  /\ \E z \in ZIn, a \in ExpVals, b \in ExpVals, zm \in ZVals, q \in BExpNorms :
       Finish("BExp",
              [z |-> z, a |-> a, b |-> b, zm |-> zm, SFR_norm |-> q.SFR_norm,
               IMF_norm |-> q.IMF_norm, nGRB0 |-> q.nGRB0],
              RetOf([i \in DOMAIN z.v |->
                       BExp(Elem(z, i), a, b, zm, q.SFR_norm, q.IMF_norm, q.nGRB0)]))

ZthVals == {Py(Zero), F1, Flt(5, -1)}

Call_S12 ==
  /\ pc = "idle"
  /\ \E z \in S12ZIn, Zth \in {NoneV} \cup ZthVals, n_dens \in {NoneV} \cup S12NVals :
       Finish("S12", [z |-> z, Zth |-> Zth, n_dens |-> n_dens],
              RetOf([i \in DOMAIN z.v |-> S12(Elem(z, i), Zth, n_dens)]))

Li08Params ==
  [a : {Li08_a}, b : {Li08_b}, c : ZVals, d : ExpVals \cup {Li08_d}, IMF_norm : {IMF_Salpeter}]
    \cup [a : {Li08_a}, b : {Li08_b}, c : {Li08_c}, d : ExpVals \cup {Li08_d}, IMF_norm : {F1}]

Call_Li08 ==
  /\ pc = "idle"
  /\ \E z \in ZIn, q \in Li08Params :
       Finish("Li08",
              [z |-> z, a |-> q.a, b |-> q.b, c |-> q.c, d |-> q.d, IMF_norm |-> q.IMF_norm],
              RetOf([i \in DOMAIN z.v |-> Li08(Elem(z, i), q.a, q.b, q.c, q.d, q.IMF_norm)]))

BPL_zNorms == [nGRB0 : {Flt(13, -10)}, eta0 : {Py(Zero), F1, F2}, av_jet_ang : {Py(Zero), F1}]

Call_BPL_z ==
  /\ pc = "idle"
  /\ \E z \in ZIn, a \in ExpVals, b \in ExpVals, zm \in ZVals, q \in BPL_zNorms :
       Finish("BPL_z",
              [z |-> z, a |-> a, b |-> b, zm |-> zm, nGRB0 |-> q.nGRB0,
               eta0 |-> q.eta0, av_jet_ang |-> q.av_jet_ang],
              RetOf([i \in DOMAIN z.v |->
                       BPL_z(Elem(z, i), a, b, zm, q.nGRB0, q.eta0, q.av_jet_ang)]))

MD14Params == [a : {Flt(15, -3)}, b : ExpVals, c : ZVals, d : ExpVals,
               IMF_norm : {IMF_Salpeter, F1}]

Call_MD14 ==
  /\ pc = "idle"
  /\ \E z \in ZIn, q \in MD14Params :
       Finish("MD14",
              [z |-> z, a |-> q.a, b |-> q.b, c |-> q.c, d |-> q.d, IMF_norm |-> q.IMF_norm],
              RetOf([i \in DOMAIN z.v |-> MD14(Elem(z, i), q.a, q.b, q.c, q.d, q.IMF_norm)]))

Rob15Errs ==
  {[a_err |-> Flt(1, -3), b_err |-> Flt(21, -2), c_err |-> Flt(14, -2), d_err |-> Flt(19, -2)],
   [a_err |-> F1, b_err |-> Flt(21, -2), c_err |-> F1, d_err |-> Flt(19, -2)],
   [a_err |-> F1, b_err |-> F1, c_err |-> F1, d_err |-> F1]}

Rob15Params ==
  [a : {Flt(1376, -5)}, b : ExpVals, c : ZVals, d : ExpVals, IMF_norm : {F1}]
    \cup [a : {Flt(15, -3)}, b : ExpVals, c : ZVals, d : ExpVals, IMF_norm : {IMF_Salpeter}]

Call_Rob15 ==
  /\ pc = "idle"
  /\ \E z \in ZIn, q \in Rob15Params, e \in Rob15Errs :
       Finish("Rob15",
              [z |-> z, a |-> q.a, b |-> q.b, c |-> q.c, d |-> q.d, a_err |-> e.a_err,
               b_err |-> e.b_err, c_err |-> e.c_err, d_err |-> e.d_err,
               IMF_norm |-> q.IMF_norm],
              RetOf([i \in DOMAIN z.v |->
                       Rob15(Elem(z, i), q.a, q.b, q.c, q.d, e.a_err, e.b_err, e.c_err,
                             e.d_err, q.IMF_norm)]))

D06Params ==
  {[a |-> qD06_a_s[i], b |-> qD06_b_s[i], c |-> qD06_c_s[i], d |-> qD06_d_s[i]] : i \in 1..3}
    \cup [a : {F1}, b : ExpVals, c : ExpVals, d : ExpVals]

D06Norms == {Flt(122, -4), Flt(488, -10), Flt(305, -10)}

Call_D06 ==
  /\ pc = "idle"
  /\ \E z \in ZIn, q \in D06Params, IMF_norm \in D06Norms :
       Finish("D06",
              [z |-> z, a |-> q.a, b |-> q.b, c |-> q.c, d |-> q.d, IMF_norm |-> IMF_norm],
              RetOf([i \in DOMAIN z.v |-> D06(Elem(z, i), q.a, q.b, q.c, q.d, IMF_norm)]))

\* qD06 runs in steps: entry, the mod check, the SFR check, the evaluation.
SFRVals == (-1)..4

ModVals == {"A", "LN", "X", "a"}

qD06_enter ==
  /\ pc = "idle"
  /\ \E z \in ZIn, SFR \in SFRVals, mod \in ModVals, IMF_norm \in {Flt(122, -4), F1} :
       args' = [z |-> z, SFR |-> SFR, mod |-> mod, IMF_norm |-> IMF_norm]
  /\ fn' = "qD06"
  /\ pc' = "qD06_mod"
  /\ UNCHANGED << ret, k_s, shape, norm >>

\* qD06_check_mod looking at SFR before mod.
qD06_check_mod_SFR_first ==
  /\ pc = "qD06_mod"
  /\ IF ~qD06_SFR_ok(args.SFR)
     THEN /\ ret' = Raised("ValueError", "SFR must be an int equal to 1, 2, or 3.")
          /\ pc' = "done"
          /\ k_s' = k_s
     ELSE IF qD06_mod_ok(args.mod)
     THEN /\ k_s' = qD06_k_s(args.mod)
          /\ pc' = "qD06_SFR"
          /\ ret' = ret
     ELSE /\ ret' = Raised("ValueError", "mod must be A or LN")
          /\ pc' = "done"
          /\ k_s' = k_s
  /\ UNCHANGED << fn, args, shape, norm >>

qD06_check_mod ==
  /\ pc = "qD06_mod"
  /\ IF qD06_mod_ok(args.mod)
     THEN /\ k_s' = qD06_k_s(args.mod)
          /\ pc' = "qD06_SFR"
          /\ ret' = ret
     ELSE /\ ret' = Raised("ValueError", "mod must be A or LN")
          /\ pc' = "done"
          /\ k_s' = k_s
  /\ UNCHANGED << fn, args, shape, norm >>

qD06_check_SFR ==
  /\ pc = "qD06_SFR"
  /\ IF qD06_SFR_ok(args.SFR)
     THEN /\ pc' = "qD06_eval"
          /\ ret' = ret
     ELSE /\ ret' = Raised("ValueError", "SFR must be an int equal to 1, 2, or 3.")
          /\ pc' = "done"
  /\ UNCHANGED << fn, args, k_s, shape, norm >>

qD06_eval ==
  /\ pc = "qD06_eval"
  /\ shape' = [i \in DOMAIN args.z.v |-> qD06_shape(Elem(args.z, i), args.SFR)]
  /\ norm' = << qD06_norm(k_s, args.SFR, args.IMF_norm) >>
  /\ ret' = RetOf([i \in DOMAIN args.z.v |-> VMul(norm'[1], shape'[i])])
  /\ pc' = "done"
  /\ UNCHANGED << fn, args, k_s >>

\* The caller takes the result (or catches the error); the next call starts
\* from fresh locals.
Return ==
  /\ pc = "done"
  /\ pc' = "idle"
  /\ fn' = "none"
  /\ args' = NoArgs
  /\ ret' = NoRet
  /\ k_s' = Unset
  /\ shape' = Unset
  /\ norm' = Unset

Next ==
  \/ Call_Schechter_log
  \/ Call_BPL_lum
  \/ Call_SH03
  \/ Call_HB06
  \/ Call_BExp
  \/ Call_S12
  \/ Call_Li08
  \/ Call_BPL_z
  \/ Call_MD14
  \/ Call_Rob15
  \/ Call_D06
  \/ qD06_enter
  \/ qD06_check_mod
  \/ qD06_check_SFR
  \/ qD06_eval
  \/ Return

Spec == Init /\ [][Next]_vars

----------------------------------------------------------------------------
(* Properties.                                                             *)

Done(f) == pc = "done" /\ fn = f

Returns == ret.exc = "none"

\* The call returned, entry by entry, the values e[1], e[2], ...
ReturnsSeq(e) ==
  /\ ret.exc = "none"
  /\ DOMAIN ret.v = DOMAIN e
  /\ \A i \in DOMAIN e : SameVal(ret.v[i], e[i])

ModValid == args.mod \in {"A", "LN"}

SFRValid == args.SFR \in {1, 2, 3}

C10_qD06_check_order ==
  fn = "qD06" =>
    /\ (pc = "done" /\ ~ModValid /\ ~SFRValid) =>
         (ret.exc = "ValueError" /\ ret.msg = "mod must be A or LN")
    /\ ret.msg = "SFR must be an int equal to 1, 2, or 3." => ModValid
    /\ pc = "qD06_SFR" => ModValid
    /\ pc = "qD06_eval" => (ModValid /\ SFRValid)
    /\ ret.exc = "ValueError" => (shape = Unset /\ norm = Unset)
    /\ ret.msg = "mod must be A or LN" => k_s = Unset
    /\ (shape # Unset \/ norm # Unset) => (ModValid /\ SFRValid)

C10_witness ==
  /\ Done("qD06")
  /\ ~ModValid
  /\ ~SFRValid
  /\ ret.msg = "mod must be A or LN"
  /\ shape = Unset

\* C5: for SFR in {1,2,3} and mod in {'A','LN'}, qD06(z, SFR, mod, IMF_norm)
\* returns what D06(z, a_s[SFR-1], b_s[SFR-1], c_s[SFR-1], d_s[SFR-1],
\* IMF_norm = k_s[SFR-1]*IMF_norm) returns, k_s being the list for mod; and
\* qD06(z, 1, 'A') is D06(z, 0.320, 3.30, 3.52, 23.6, IMF_norm = 4e-6*0.0122).
C5_k_A == << Flt(4, -6), Flt(32, -7), Flt(12, -7) >>

C5_k_LN == << Flt(25, -7), Flt(2, -6), Flt(63, -8) >>

C5_k(mod) == IF mod = "A" THEN C5_k_A ELSE C5_k_LN

EntryIs(i, x) == NumEq(args.z.v[i], x.num)

\* e to the power -1
ExpMinus1 == VExp(VNeg(F1))

\* C2 as stated: Schechter_log(logLbreak, logLbreak, slope) equals 1.0 for
\* any slope.
C2_Schechter_at_break_is_1 ==
  (Done("Schechter_log") /\ Returns) =>
    \A i \in DOMAIN args.z.v :
      EntryIs(i, args.logLbreak) => SameVal(ret.v[i], F1)

\* C2, amended: Schechter_log(logLbreak, logLbreak, slope) equals exp(-1) for
\* any slope: at logL = logLbreak, x = 1 and x^(1-slope) * exp(-x) is
\* exp(-1) regardless of slope.
C2_Schechter_at_break_is_exp_minus_1 ==
  (Done("Schechter_log") /\ Returns) =>
    \A i \in DOMAIN args.z.v :
      EntryIs(i, args.logLbreak) => SameVal(ret.v[i], ExpMinus1)

C2_witness ==
  /\ Done("Schechter_log")
  /\ Returns
  /\ args.slope = Py(Lit(-1, 0))
  /\ \E i \in DOMAIN args.z.v : EntryIs(i, args.logLbreak)

\* C3: the two branch formulas of BPL_lum, BExp and BPL_z agree at the
\* breakpoint for all parameter values, and the value returned there is the
\* common value: 1 for BPL_lum at logL = logLbreak, norm * exp(a*zm) for BExp
\* at z = zm, norm * (1+zm)^a for BPL_z at z = zm.
C3_BPL_lum_at_break ==
  (Done("BPL_lum") /\ Returns) =>
    \A i \in DOMAIN args.z.v :
      EntryIs(i, args.logLbreak) =>
        /\ SameVal(ret.v[i], F1)
        /\ SameVal(BPL_lum_low(VPow(F10, VSub(Elem(args.z, i), args.logLbreak)), args.slopeL), F1)
        /\ SameVal(BPL_lum_high(VPow(F10, VSub(Elem(args.z, i), args.logLbreak)), args.slopeH), F1)

C3_BExp_at_break ==
  (Done("BExp") /\ Returns) =>
    \A i \in DOMAIN args.z.v :
      EntryIs(i, args.zm) =>
        /\ SameVal(ret.v[i],
                   VMul(BExp_norm(args.SFR_norm, args.IMF_norm, args.nGRB0),
                        VExp(VMul(args.a, args.zm))))
        /\ SameVal(BExp_low(args.zm, args.a), VExp(VMul(args.a, args.zm)))
        /\ SameVal(BExp_high(args.zm, args.a, args.b, args.zm), VExp(VMul(args.a, args.zm)))

C3_BPL_z_at_break ==
  (Done("BPL_z") /\ Returns) =>
    \A i \in DOMAIN args.z.v :
      EntryIs(i, args.zm) =>
        /\ SameVal(ret.v[i],
                   VMul(BPL_z_norm(args.nGRB0, args.eta0, args.av_jet_ang),
                        VPow(VAdd(F1, args.zm), args.a)))
        /\ SameVal(BPL_z_low(args.zm, args.a), VPow(VAdd(F1, args.zm), args.a))
        /\ SameVal(BPL_z_high(args.zm, args.a, args.b, args.zm),
                   VPow(VAdd(F1, args.zm), args.a))

C3_continuity_at_break ==
  /\ C3_BPL_lum_at_break
  /\ C3_BExp_at_break
  /\ C3_BPL_z_at_break

C3_witness ==
  /\ Done("BPL_z")
  /\ Returns
  /\ args.zm = Py(Lit(2, 0))
  /\ args.a = Py(Lit(1, 0))
  /\ args.b = Py(Lit(-1, 0))
  /\ \E i \in DOMAIN args.z.v : EntryIs(i, args.zm)

\* The segments of HB06 at the redshift z, as the documentation gives them.
C4_first(z) == VPow(VAdd(F1, z), args.a)

C4_middle(z) ==
  VMul(VPow(VAdd(F1, z), args.b), VPow(VAdd(F1, args.z1), VSub(args.a, args.b)))

C4_third(z) ==
  VMul(VMul(VPow(VAdd(F1, z), args.c), VPow(VAdd(F1, args.z2), VSub(args.b, args.c))),
       VPow(VAdd(F1, args.z1), VSub(args.a, args.b)))

C4_at_breaks ==
  \A i \in DOMAIN args.z.v :
    /\ EntryIs(i, args.z1) =>
         /\ SameVal(ret.v[i], VMul(args.norm, C4_first(args.z1)))
         /\ SameVal(ret.v[i], VMul(args.norm, C4_middle(args.z1)))
         /\ SameVal(HB06_seg1(args.z1, args.a), HB06_seg2(args.z1, args.z1, args.a, args.b))
    /\ EntryIs(i, args.z2) =>
         /\ SameVal(ret.v[i], VMul(args.norm, C4_middle(args.z2)))
         /\ SameVal(ret.v[i], VMul(args.norm, C4_third(args.z2)))
         /\ SameVal(HB06_seg2(args.z2, args.z1, args.a, args.b),
                    HB06_seg3(args.z2, args.z1, args.z2, args.a, args.b, args.c))
    /\ VGeq(Elem(args.z, i), args.z2) =>
         SameVal(ret.v[i], VMul(args.norm, C4_third(Elem(args.z, i))))

C6_Li08(z) ==
  Li08(z, Flt(157, -4), Flt(118, -3), Flt(323, -2), Flt(466, -2), Flt(7422, -6))

C6_density(x, z) ==
  IF args.n_dens # NoneV THEN VMul(x, VPow(VAdd(F1, z), args.n_dens)) ELSE x

C6_metallicity(x, z) ==
  IF args.Zth # NoneV
  THEN VMul(x, Gammainc(Flt(84, -2),
                        VMul(VPow(args.Zth, Flt(2, 0)), VPow(F10, VMul(Flt(3, -1), z)))))
  ELSE x

\* C6: S12(z, Zth, n_dens) is Li08(z) multiplied by (1+z)^n_dens exactly
\* when n_dens is provided and by P(0.84, Zth^2 * 10^(0.3*z)) exactly when
\* Zth is provided; so S12(z) with both unset is Li08(z), and so is
\* S12(z, n_dens=0).
C6_S12_modifiers ==
  Done("S12") =>
    /\ ReturnsSeq([i \in DOMAIN args.z.v |->
         C6_metallicity(C6_density(C6_Li08(Elem(args.z, i)), Elem(args.z, i)),
                        Elem(args.z, i))])
    /\ (args.Zth = NoneV /\ (args.n_dens = NoneV \/ args.n_dens = Py(Zero))) =>
         ReturnsSeq([i \in DOMAIN args.z.v |-> C6_Li08(Elem(args.z, i))])

C6_witness ==
  /\ Done("S12")
  /\ Returns
  /\ args.Zth = Py(Zero)
  /\ args.n_dens = Py(Lit(1, 0))
  /\ args.z.v = << Zero, Lit(1, 1) >>
  /\ \A i \in DOMAIN ret.v : VIsZero(ret.v[i])

\* The same outcome: the same error, or the same values entry by entry.
SameRet(r1, r2) ==
  /\ r1.exc = r2.exc
  /\ DOMAIN r1.v = DOMAIN r2.v
  /\ \A i \in DOMAIN r1.v : SameVal(r1.v[i], r2.v[i])

\* C7: Rob15(z, a, b, c, d, a_err, b_err, c_err, d_err, IMF_norm) is
\* MD14(z, a, b, c, d, IMF_norm) for any values of the four error
\* parameters, so Rob15 calls that differ only in them return the same.
C7_Rob15_is_MD14 ==
  Done("Rob15") =>
    SameRet(ret, RetOf([i \in DOMAIN args.z.v |->
                          MD14(Elem(args.z, i), args.a, args.b, args.c, args.d,
                               args.IMF_norm)]))

C7_witness ==
  /\ Done("Rob15")
  /\ Returns
  /\ args.a_err = F1
  /\ args.b_err = F1
  /\ args.c_err = F1
  /\ args.d_err = F1
  /\ args.c = Py(Lit(2, 0))
  /\ args.d = Py(Lit(1, 0))
  /\ args.b = Py(Lit(1, 0))

\* C8: BExp's norm is IMF_norm * SFR_norm when nGRB0 is unset and nGRB0
\* whenever it is provided, 0 included: the output is then nGRB0 * shape
\* whatever SFR_norm and IMF_norm are, and IMF_norm * SFR_norm * shape when
\* nGRB0 is unset.
C8_BExp_norm ==
  Done("BExp") =>
    ReturnsSeq([i \in DOMAIN args.z.v |->
      VMul(IF args.nGRB0 = NoneV THEN VMul(args.IMF_norm, args.SFR_norm) ELSE args.nGRB0,
           BExp_shape(Elem(args.z, i), args.a, args.b, args.zm))])

C8_witness ==
  /\ Done("BExp")
  /\ Returns
  /\ args.nGRB0 = Py(Zero)
  /\ args.SFR_norm = F1
  /\ \A i \in DOMAIN ret.v : VIsZero(ret.v[i])

\* The call divided by zero with plain Python scalars on both sides.
C9_scalar_zero_division ==
  \/ fn = "BPL_z" /\ VIsZero(VMul(args.eta0, args.av_jet_ang))
  \/ fn \in {"Li08", "MD14", "Rob15"} /\ ~args.z.np /\ VIsZero(args.c)
  \/ fn = "Li08" /\ ~args.z.np /\ EntryIs(1, Py(Zero)) /\ ~VIsZero(args.c)
       /\ NumSign(args.d.num) < 0

\* z/c for c = 0 on an entry of a numpy array: nan for 0/0, inf otherwise.
C9_over_zero(z) == IF VIsZero(z) THEN NaN ELSE PInf

\* C9 as stated: the only error outcome is qD06's ValueError; no call to
\* one of the other eleven functions ends in an error, and a division by
\* zero (BPL_z with eta0*av_jet_ang = 0, Li08 and MD14 with c = 0) ends in
\* a returned value.
C9_only_qD06_raises ==
  pc = "done" =>
    /\ ret.exc # "none" => (fn = "qD06" /\ ret.exc = "ValueError")
    /\ fn # "qD06" => Returns

\* C9, amended: the only error the library raises itself is qD06's
\* ValueError; the other eleven functions validate nothing.  A division by
\* zero in them is left to the arithmetic that performs it: between plain
\* Python scalars it ends the call in ZeroDivisionError (BPL_z with
\* eta0*av_jet_ang = 0 for every z; Li08 and MD14 with c = 0 when z is a
\* Python scalar); on a numpy array z, Li08 and MD14 with c = 0 return
\* without raising, the inf or nan of the division flowing into the
\* returned value.  Over the inputs modelled here the scalar zero divisions
\* (those, Rob15's like MD14's, and 0 to a negative power in Li08) are the
\* only calls of the eleven that end in an error.
C9_errors ==
  pc = "done" =>
    /\ ret.exc \in {"none", "ValueError", "ZeroDivisionError"}
    /\ ret.exc = "ValueError" <=> (fn = "qD06" /\ ~(ModValid /\ SFRValid))
    /\ ret.exc = "ZeroDivisionError" <=> C9_scalar_zero_division
    /\ (fn = "Li08" /\ args.z.np /\ VIsZero(args.c)) =>
         ReturnsSeq([i \in DOMAIN args.z.v |->
           VDiv(VMul(args.IMF_norm, VAdd(args.a, VMul(args.b, Elem(args.z, i)))),
                VAdd(F1, VPow(C9_over_zero(Elem(args.z, i)), args.d)))])
    /\ (fn = "MD14" /\ args.z.np /\ VIsZero(args.c)) =>
         ReturnsSeq([i \in DOMAIN args.z.v |->
           VDiv(VMul(VMul(args.IMF_norm, args.a), VPow(VAdd(F1, Elem(args.z, i)), args.b)),
                VAdd(F1, VPow(PInf, args.d)))])

C9_witness ==
  /\ Done("BPL_z")
  /\ args.eta0 = Py(Zero)
  /\ args.av_jet_ang = F1
  /\ args.z.np
  /\ ret.exc = "ZeroDivisionError"

====
